---- MODULE Spec2Model ----
(***************************************************************************)
(* Model of the data validation stage of the network_security training     *)
(* pipeline (network_security/components/data_validation.py): the column   *)
(* validator, the drift detector and the orchestrator                      *)
(* initiate_data_validation, together with the files they read and write.  *)
(*                                                                         *)
(* Cells of a table are strings: "" is a missing value (NaN after          *)
(* read_csv), "0" and "1" are numbers, "x" and "y" are text.  Scores are    *)
(* exact rationals [num, den]; [num |-> 0, den |-> 0] stands for NaN.       *)
(***************************************************************************)
EXTENDS Integers, Sequences, FiniteSets, TLC

VARIABLES
    schema_yaml,        \* the file data_schema/schema.yaml (see SchemaFile)
    schema_config,      \* self._schema_config["columns"], loaded by __init__
    train_file,         \* CSV at data_ingestion_artifact.trained_file_path
    test_file,          \* CSV at data_ingestion_artifact.test_file_path
    train_dataframe,    \* <<>> until read, then <<DataFrame>>
    test_dataframe,     \* <<>> until read, then <<DataFrame>>
    valid_train,        \* result of validate_no_of_columns(train_dataframe)
    valid_test,         \* result of validate_no_of_columns(test_dataframe)
    threshold,          \* threshold argument of the detect_dataset_drift call
    drift_status,       \* value returned by detect_dataset_drift
    drift_report_file,  \* <<>> if absent, else <<report>> at drift_report_file_path
    valid_train_file,   \* <<>> if absent, else <<CSV>> at valid_train_file_path
    valid_test_file,    \* <<>> if absent, else <<CSV>> at valid_test_file_path
    artifact,           \* <<>> until returned, then <<DataValidationArtifact>>
    raised,             \* exception wrapped into NetworkSecurityException, or "None"
    ks_empty_raises,    \* whether the installed ks_2samp raises on an empty sample
    get_positional,     \* whether the installed Series.get takes an integer key
                        \* as a position when the index holds no numbers
    trace,              \* the steps executed so far, in order
    previous,           \* <<>>, or <<outcome of the previous run of this stage>>
    transform_outputs,  \* the files initiate_data_transformation has written
    transform_artifact, \* <<>> until returned, then <<DataTransformationArtifact>>
    clock,              \* datetime.now(), in ticks of half a second
    default_timestamp,  \* per process: <<>>, or <<the default of the timestamp
                        \* parameter of TrainingPipelineConfig.__init__>>
    configs,            \* the TrainingPipelineConfig objects created so far
    data_ingestion_artifact, \* <<>> until ingestion returned, then
                             \* <<DataIngestionArtifact>>
    model_trainer_artifact,  \* <<>> until training returned, then
                             \* <<ModelTrainerArtifact>>
    pc                  \* position in the stage being run

vars == <<schema_yaml, schema_config, train_file, test_file, train_dataframe, test_dataframe,
          valid_train, valid_test, threshold, drift_status, drift_report_file,
          valid_train_file, valid_test_file, artifact, raised, ks_empty_raises,
          get_positional,
          trace, previous, transform_outputs, transform_artifact, clock,
          default_timestamp, configs, data_ingestion_artifact,
          model_trainer_artifact, pc>>

(***************************************************************************)
(* Bounds and inputs                                                       *)
(***************************************************************************)
MaxRows == 5
MaxClock == 4
MaxConfigs == 3

None == "None"

\* configured paths (DataValidationConfig) and ingestion paths
TRAIN_FILE_PATH == "data_ingestion/ingested/train.csv"
TEST_FILE_PATH == "data_ingestion/ingested/test.csv"
VALID_TRAIN_FILE_PATH == "data_validation/validated/train.csv"
VALID_TEST_FILE_PATH == "data_validation/validated/test.csv"
DRIFT_REPORT_FILE_PATH == "data_validation/drift_store/report.yaml"

\* threshold: float = 0.05
DefaultThresholdNum == 5
DefaultThresholdDen == 100
DefaultThreshold == [num |-> DefaultThresholdNum, den |-> DefaultThresholdDen]

NaN == [num |-> 0, den |-> 0]

(***************************************************************************)
(* Small helpers                                                           *)
(***************************************************************************)
Range(s) == {s[i] : i \in DOMAIN s}

Abs(x) == IF x < 0 THEN -x ELSE x

RECURSIVE SetMax(_)
SetMax(S) ==
    IF S = {} THEN 0
    ELSE LET x == CHOOSE y \in S : TRUE
             m == SetMax(S \ {x})
         IN IF x > m THEN x ELSE m

RECURSIVE SetSum(_, _)
SetSum(f, S) ==
    IF S = {} THEN 0
    ELSE LET x == CHOOSE y \in S : TRUE
         IN f[x] + SetSum(f, S \ {x})

\* rationals [num, den] with den > 0, or NaN; every comparison with NaN is false
IsNaN(p) == p.den = 0
Less(p, q) == ~IsNaN(p) /\ ~IsNaN(q) /\ p.num * q.den < q.num * p.den
Leq(p, q) == ~IsNaN(p) /\ ~IsNaN(q) /\ p.num * q.den <= q.num * p.den
Greater(p, q) == Less(q, p)
OneMinus(p) == [num |-> p.den - p.num, den |-> p.den]

(***************************************************************************)
(* CSV files and DataFrames (pandas read_csv / to_csv)                     *)
(***************************************************************************)
IntCells == {"0", "1"}
FloatCells == {"0.0", "1.0"}
NumericCells == IntCells \cup FloatCells

Canon(cell) ==
    CASE cell = "0.0" -> "0"
      [] cell = "1.0" -> "1"
      [] OTHER -> cell

FloatRepr(v) ==
    CASE v = "0" -> "0.0"
      [] v = "1" -> "1.0"
      [] OTHER -> v

Num(v) == IF v = "1" THEN 1 ELSE 0

CsvColumn(csv, j) == [i \in 1..Len(csv.rows) |-> csv.rows[i][j]]

\* dtype inference of read_csv for one column of cells
InferDtype(cells) ==
    IF Len(cells) = 0 THEN "object"
    ELSE IF \A i \in DOMAIN cells : cells[i] \in NumericCells \cup {""}
         THEN IF \A i \in DOMAIN cells : cells[i] \in IntCells
              THEN "int64" ELSE "float64"
         ELSE "object"

IndexOf(seq, x) == CHOOSE i \in DOMAIN seq : seq[i] = x

ReadCsv(csv) ==
    LET names == Range(csv.header)
        col(c) == CsvColumn(csv, IndexOf(csv.header, c))
    IN [columns |-> csv.header,
        dtype   |-> [c \in names |-> InferDtype(col(c))],
        data    |-> [c \in names |->
                       IF InferDtype(col(c)) = "object" THEN col(c)
                       ELSE [i \in DOMAIN col(c) |-> Canon(col(c)[i])]]]

NRows(df) == IF Len(df.columns) = 0 THEN 0 ELSE Len(df.data[df.columns[1]])

ToCsv(df) ==
    [header |-> df.columns,
     rows   |-> [i \in 1..NRows(df) |->
                   [j \in 1..Len(df.columns) |->
                      LET c == df.columns[j]
                      IN IF df.dtype[c] = "float64"
                         THEN FloatRepr(df.data[c][i])
                         ELSE df.data[c][i]]]]

(***************************************************************************)
(* Column validator                                                        *)
(***************************************************************************)
\* faulty variant: refuses only a table with too few columns
validate_no_of_columns_atleast(dataframe, required_columns) ==
    LET number_of_columns == Len(required_columns)
    IN IF Len(dataframe.columns) < number_of_columns THEN FALSE ELSE TRUE

\* faulty variant: a table with a missing or an extra column name is refused
validate_no_of_columns_byName(dataframe, required_columns) ==
    /\ Len(dataframe.columns) = Len(required_columns)
    /\ Range(dataframe.columns) = Range(required_columns)

validate_no_of_columns(dataframe, required_columns) ==
    LET number_of_columns == Len(required_columns)
    IN IF Len(dataframe.columns) # number_of_columns THEN FALSE ELSE TRUE

\* the diagnostic logged on failure; it does not enter the result
missing_cols(dataframe, required_columns) ==
    Range(required_columns) \ Range(dataframe.columns)
extra_cols(dataframe, required_columns) ==
    Range(dataframe.columns) \ Range(required_columns)

(***************************************************************************)
(* Drift detector                                                          *)
(***************************************************************************)
dropna(series) == SelectSeq(series, LAMBDA v : v # "")

is_numeric_dtype(dtype) == dtype \in {"int64", "float64"}

\* scipy.stats.ks_2samp, exact two-sided p-value for two non-empty samples:
\* 1 - (paths of the merged sample staying strictly inside the band) / (all paths)
CountLeq(d, x) == Cardinality({i \in DOMAIN d : Num(d[i]) <= x})

KsBand(d1, d2) ==
    SetMax({Abs(CountLeq(d1, x) * Len(d2) - CountLeq(d2, x) * Len(d1)) :
              x \in {Num(v) : v \in Range(d1) \cup Range(d2)}})

RECURSIVE InsidePaths(_, _, _, _, _)
InsidePaths(i, j, n1, n2, h) ==
    IF Abs(i * n2 - j * n1) >= h THEN 0
    ELSE IF i = 0 /\ j = 0 THEN 1
    ELSE (IF i > 0 THEN InsidePaths(i - 1, j, n1, n2, h) ELSE 0)
       + (IF j > 0 THEN InsidePaths(i, j - 1, n1, n2, h) ELSE 0)

ks_2samp_pvalue(d1, d2) ==
    LET n1 == Len(d1)
        n2 == Len(d2)
        total == InsidePaths(n1, n2, n1, n2, n1 * n2 + 1)
        inside == InsidePaths(n1, n2, n1, n2, KsBand(d1, d2))
    IN [num |-> total - inside, den |-> total]

\* value_counts: number of occurrences of cat (the frequency is this over Len(d))
Count(d, cat) == Cardinality({i \in DOMAIN d : d[i] = cat})

\* faulty variant: the differences are summed with their sign
FrequencyDiff_signed(d1, d2) ==
    LET n1 == IF Len(d1) = 0 THEN 1 ELSE Len(d1)
        n2 == IF Len(d2) = 0 THEN 1 ELSE Len(d2)
        cats == Range(d1) \cup Range(d2)
        term == [cat \in cats |-> Count(d1, cat) * n2 - Count(d2, cat) * n1]
    IN [num |-> SetSum(term, cats), den |-> n1 * n2]

\* sum(abs(freq1.get(cat, 0) - freq2.get(cat, 0)) for cat in union)
FrequencyDiff(d1, d2) ==
    LET n1 == IF Len(d1) = 0 THEN 1 ELSE Len(d1)
        n2 == IF Len(d2) = 0 THEN 1 ELSE Len(d2)
        cats == Range(d1) \cup Range(d2)
        term == [cat \in cats |-> Abs(Count(d1, cat) * n2 - Count(d2, cat) * n1)]
    IN [num |-> SetSum(term, cats), den |-> n1 * n2]

\* lines 99-102: the numeric branch for a pair of non-empty samples
NumericRecord(d1, d2, thr) ==
    LET p_value == ks_2samp_pvalue(d1, d2)
    IN [p_value |-> p_value, drift_detected |-> Less(p_value, thr)]

\* lines 103-109: the categorical branch
CategoricalRecord(d1, d2, thr) ==
    LET diff == FrequencyDiff(d1, d2)
    IN [p_value |-> OneMinus(diff), drift_detected |-> Greater(diff, thr)]

\* the counts of value_counts, largest first
RECURSIVE CountsDescending(_, _)
CountsDescending(d, cats) ==
    IF cats = {} THEN <<>>
    ELSE LET top == CHOOSE c \in cats : \A e \in cats : Count(d, c) >= Count(d, e)
         IN <<Count(d, top)>> \o CountsDescending(d, cats \ {top})

\* line 107 when the reference values are text and the candidate values are
\* numbers: no category of one side is a label of the other. freq2.get(text, 0)
\* is 0. freq1.get(number, 0) is 0 too, unless the number is an int and
\* Series.get takes it as a position: then it is the frequency at that
\* position of freq1, when there is one
MixedFrequencyDiff(d1, d2, current_dtype, positional) ==
    LET n1 == IF Len(d1) = 0 THEN 1 ELSE Len(d1)
        n2 == IF Len(d2) = 0 THEN 1 ELSE Len(d2)
        counts1 == CountsDescending(d1, Range(d1))
        get1(cat) == IF /\ positional
                        /\ current_dtype = "int64"
                        /\ Num(cat) + 1 <= Len(counts1)
                     THEN counts1[Num(cat) + 1] ELSE 0
        cats2 == Range(d2)
        term == [cat \in cats2 |-> Abs(get1(cat) * n2 - Count(d2, cat) * n1)]
    IN [num |-> Len(d1) * n2 + SetSum(term, cats2), den |-> n1 * n2]

\* lines 103-109 for text reference values and numeric candidate values
MixedRecord(d1, d2, current_dtype, thr, positional) ==
    LET diff == MixedFrequencyDiff(d1, d2, current_dtype, positional)
    IN [p_value |-> OneMinus(diff), drift_detected |-> Greater(diff, thr)]

\* faulty variant: the method follows the type of the candidate column
CompareColumn_byCandidate(base_df, current_df, column, thr, empty_raises) ==
    LET d1 == dropna(base_df.data[column])
        d2 == dropna(current_df.data[column])
    IN IF is_numeric_dtype(current_df.dtype[column])
       THEN IF Len(d1) = 0 \/ Len(d2) = 0
            THEN IF empty_raises
                 THEN [raised |-> "ValueError"]
                 ELSE [raised |-> None,
                       record |-> [p_value |-> NaN, drift_detected |-> Less(NaN, thr)]]
            ELSE IF ~is_numeric_dtype(base_df.dtype[column])
                 THEN [raised |-> "TypeError"]
                 ELSE [raised |-> None, record |-> NumericRecord(d1, d2, thr)]
       ELSE [raised |-> None, record |-> CategoricalRecord(d1, d2, thr)]

\* lines 97-117 for one column present on both sides: the record added to the
\* report, or the exception the comparison raises
CompareColumn(base_df, current_df, column, thr, empty_raises) ==
    LET d1 == dropna(base_df.data[column])
        d2 == dropna(current_df.data[column])
    IN IF is_numeric_dtype(base_df.dtype[column])
       THEN IF Len(d1) = 0 \/ Len(d2) = 0
            THEN IF empty_raises
                 THEN [raised |-> "ValueError"]
                 ELSE [raised |-> None,
                       record |-> [p_value |-> NaN, drift_detected |-> Less(NaN, thr)]]
            ELSE IF ~is_numeric_dtype(current_df.dtype[column])
                 THEN [raised |-> "TypeError"]
                 ELSE [raised |-> None, record |-> NumericRecord(d1, d2, thr)]
       ELSE IF is_numeric_dtype(current_df.dtype[column]) /\ Len(d2) > 0
            THEN [raised |-> None,
                  record |-> MixedRecord(d1, d2, current_df.dtype[column], thr,
                                         get_positional)]
            ELSE [raised |-> None, record |-> CategoricalRecord(d1, d2, thr)]

\* faulty variant: the status follows the last compared column
ColumnStep_lastWins(base_df, current_df, column, thr, empty_raises, acc) ==
    IF column \notin Range(current_df.columns)
    THEN acc
    ELSE LET r == CompareColumn(base_df, current_df, column, thr, empty_raises)
         IN IF r.raised # None
            THEN [raised |-> r.raised, status |-> acc.status, report |-> acc.report]
            ELSE [raised |-> None,
                  status |-> ~r.record.drift_detected,
                  report |-> [c \in DOMAIN acc.report \cup {column} |->
                                IF c = column THEN r.record ELSE acc.report[c]]]

\* faulty variant: a column absent from the current table is looked up all the same
ColumnStep_noSkip(base_df, current_df, column, thr, empty_raises, acc) ==
    IF column \notin Range(current_df.columns)
    THEN [raised |-> "KeyError", status |-> acc.status, report |-> acc.report]
    ELSE LET r == CompareColumn(base_df, current_df, column, thr, empty_raises)
         IN IF r.raised # None
            THEN [raised |-> r.raised, status |-> acc.status, report |-> acc.report]
            ELSE [raised |-> None,
                  status |-> IF r.record.drift_detected THEN FALSE ELSE acc.status,
                  report |-> [c \in DOMAIN acc.report \cup {column} |->
                                IF c = column THEN r.record ELSE acc.report[c]]]

\* faulty variant: the status is true whatever the drift check returned
DoneArtifact_alwaysTrue(status) ==
    [validation_status       |-> TRUE,
     valid_train_file_path   |-> VALID_TRAIN_FILE_PATH,
     valid_test_file_path    |-> VALID_TEST_FILE_PATH,
     invalid_train_file_path |-> None,
     invalid_test_file_path  |-> None,
     drift_report_file_path  |-> DRIFT_REPORT_FILE_PATH]

\* lines 93-117: one iteration of the loop, on the accumulated status and report
ColumnStep(base_df, current_df, column, thr, empty_raises, acc) ==
    IF column \notin Range(current_df.columns)
    THEN acc
    ELSE LET r == CompareColumn(base_df, current_df, column, thr, empty_raises)
         IN IF r.raised # None
            THEN [raised |-> r.raised, status |-> acc.status, report |-> acc.report]
            ELSE [raised |-> None,
                  status |-> IF r.record.drift_detected THEN FALSE ELSE acc.status,
                  report |-> [c \in DOMAIN acc.report \cup {column} |->
                                IF c = column THEN r.record ELSE acc.report[c]]]

\* line 92: the loop over base_df.columns, from column k on; an exception ends it
RECURSIVE DriftLoop(_, _, _, _, _, _)
DriftLoop(base_df, current_df, thr, empty_raises, k, acc) ==
    IF k > Len(base_df.columns) \/ acc.raised # None THEN acc
    ELSE DriftLoop(base_df, current_df, thr, empty_raises, k + 1,
                   ColumnStep(base_df, current_df, base_df.columns[k], thr,
                              empty_raises, acc))

EmptyReport == [c \in {} |-> NaN]

\* faulty variant: a call that compared no column returns false
detect_dataset_drift_needsColumn(base_df, current_df, thr, empty_raises) ==
    LET r == DriftLoop(base_df, current_df, thr, empty_raises, 1,
                       [raised |-> None, status |-> TRUE, report |-> EmptyReport])
    IN IF r.raised = None /\ DOMAIN r.report = {}
       THEN [raised |-> None, status |-> FALSE, report |-> r.report]
       ELSE r

\* lines 89-117 of detect_dataset_drift: status and report before the report is saved
detect_dataset_drift(base_df, current_df, thr, empty_raises) ==
    DriftLoop(base_df, current_df, thr, empty_raises, 1,
              [raised |-> None, status |-> TRUE, report |-> EmptyReport])

(***************************************************************************)
(* Inputs: the ingested CSV files and the schema                           *)
(***************************************************************************)
\* column contents with n rows: all 0; 1 with a last missing value; all
\* missing; all "x"; "x" with a last "y"
Samples(n) ==
    {[i \in 1..n |-> "0"],
     [i \in 1..n |-> IF i = n THEN "" ELSE "1"],
     [i \in 1..n |-> ""],
     [i \in 1..n |-> "x"],
     [i \in 1..n |-> IF i = n THEN "y" ELSE "x"]}

TrainHeaders == {<<"A">>, <<"A", "B">>}
TestHeaders == {<<"A">>, <<"C">>, <<"A", "B">>, <<"B", "A">>, <<"A", "C">>}

RowCounts == {0, MaxRows}

CsvOf(header, n, cols) ==
    [header |-> header,
     rows   |-> [i \in 1..n |-> [j \in 1..Len(header) |-> cols[j][i]]]]

CsvFiles(headers) ==
    UNION {UNION {{CsvOf(header, n, cols) :
                     cols \in [1..Len(header) -> Samples(n)]} :
                  n \in RowCounts} :
           header \in headers}

Schemas == {<<"A">>, <<"A", "B">>}

\* data_schema/schema.yaml: a YAML mapping (its keys and their values), a file
\* that yaml.safe_load cannot parse, or no file
SchemaFile(cols) == [state |-> "parsed", content |-> [columns |-> cols]]
SchemaFileWithoutColumns ==
    [state |-> "parsed", content |-> [target_column |-> <<"Result">>]]
SchemaFileUnparsable == [state |-> "unparsable", content |-> [k \in {} |-> <<>>]]
SchemaFileAbsent == [state |-> "absent", content |-> [k \in {} |-> <<>>]]

HasColumns(yaml) == yaml.state = "parsed" /\ "columns" \in DOMAIN yaml.content

\* the two files are splits of one dataset (train_test_split in data_ingestion):
\* a column that holds numbers in one
\* of them does not hold text in the other
Kind(df, c) ==
    IF Len(dropna(df.data[c])) = 0 THEN "empty"
    ELSE IF is_numeric_dtype(df.dtype[c]) THEN "numeric" ELSE "text"

SameDataset(df1, df2) ==
    \A c \in Range(df1.columns) \cap Range(df2.columns) :
        {Kind(df1, c), Kind(df2, c)} # {"numeric", "text"}

(***************************************************************************)
(* initiate_data_validation                                                *)
(***************************************************************************)
\* the locals of a run before its first step
RunStart ==
    /\ train_dataframe = <<>>
    /\ test_dataframe = <<>>
    /\ valid_train = <<>>
    /\ valid_test = <<>>
    /\ drift_status = <<>>
    /\ artifact = <<>>
    /\ raised = None
    /\ trace = <<>>

Processes == {1, 2}

\* the one TrainingPipelineConfig of the run exists; the clock plays no part
OneConfig ==
    /\ clock = 0
    /\ default_timestamp = [p \in Processes |-> <<>>]
    /\ configs = <<>>

\* data_ingestion.py lines 167-170
DataIngestionArtifact ==
    [trained_file_path |-> TRAIN_FILE_PATH, test_file_path |-> TEST_FILE_PATH]

\* ingestion has returned its artifact, training has not run
Ingested ==
    /\ data_ingestion_artifact = <<DataIngestionArtifact>>
    /\ model_trainer_artifact = <<>>

\* nothing downstream has run and no earlier run has left anything
Fresh ==
    /\ OneConfig
    /\ Ingested
    /\ drift_report_file = <<>>
    /\ valid_train_file = <<>>
    /\ valid_test_file = <<>>
    /\ previous = <<>>
    /\ transform_outputs = {}
    /\ transform_artifact = <<>>

\* a DataValidation object constructed on a schema file that has "columns"
Init ==
    /\ schema_config \in Schemas
    /\ schema_yaml = SchemaFile(schema_config)
    /\ train_file \in CsvFiles(TrainHeaders)
    /\ test_file \in CsvFiles(TestHeaders)
    /\ SameDataset(ReadCsv(train_file), ReadCsv(test_file))
    /\ ks_empty_raises \in BOOLEAN
    /\ get_positional \in BOOLEAN
    /\ threshold = DefaultThreshold
    /\ RunStart
    /\ Fresh
    /\ pc = "Start"

\* what no step of initiate_data_validation assigns
inputs == <<schema_yaml, schema_config, train_file, test_file, ks_empty_raises,
            get_positional, clock, default_timestamp, configs,
      data_ingestion_artifact, model_trainer_artifact,
            threshold, previous, transform_outputs, transform_artifact>>
outputs == <<drift_report_file, valid_train_file, valid_test_file>>

\* any exception inside the try block is re-raised as NetworkSecurityException
Raise(kind) ==
    /\ raised' = kind
    /\ pc' = "Raised"

Step(name) == trace' = Append(trace, name)

\* line 141
ReadTrain ==
    /\ pc = "Start"
    /\ train_dataframe' = <<ReadCsv(train_file)>>
    /\ pc' = "TrainRead"
    /\ Step("read_train")
    /\ UNCHANGED <<inputs, outputs, test_dataframe, valid_train, valid_test,
                   drift_status, artifact, raised>>

ReadTrainFails ==
    /\ pc = "Start"
    /\ Raise("IOError")
    /\ UNCHANGED <<inputs, outputs, train_dataframe, test_dataframe, valid_train,
                   valid_test, drift_status, artifact, trace>>

\* line 142
ReadTest ==
    /\ pc = "TrainRead"
    /\ test_dataframe' = <<ReadCsv(test_file)>>
    /\ pc' = "TestRead"
    /\ Step("read_test")
    /\ UNCHANGED <<inputs, outputs, train_dataframe, valid_train, valid_test,
                   drift_status, artifact, raised>>

ReadTestFails ==
    /\ pc = "TrainRead"
    /\ Raise("IOError")
    /\ UNCHANGED <<inputs, outputs, train_dataframe, test_dataframe, valid_train,
                   valid_test, drift_status, artifact, trace>>

\* line 145
ValidateTrain ==
    /\ pc = "TestRead"
    /\ HasColumns(schema_yaml)
    /\ valid_train' = <<validate_no_of_columns(train_dataframe[1], schema_config)>>
    /\ pc' = "TrainChecked"
    /\ Step("validate_train")
    /\ UNCHANGED <<inputs, outputs, train_dataframe, test_dataframe, valid_test,
                   drift_status, artifact, raised>>

\* line 146
ValidateTest ==
    /\ pc = "TrainChecked"
    /\ valid_test' = <<validate_no_of_columns(test_dataframe[1], schema_config)>>
    /\ pc' = "Checked"
    /\ Step("validate_test")
    /\ UNCHANGED <<inputs, outputs, train_dataframe, test_dataframe, valid_train,
                   drift_status, artifact, raised>>

DataValidationArtifact(status, vtrain, vtest, itrain, itest, report) ==
    [validation_status       |-> status,
     valid_train_file_path   |-> vtrain,
     valid_test_file_path    |-> vtest,
     invalid_train_file_path |-> itrain,
     invalid_test_file_path  |-> itest,
     drift_report_file_path  |-> report]

\* faulty variant: marks both inputs invalid whichever failed
RejectedArtifact_both(vtrain, vtest) ==
    DataValidationArtifact(FALSE, None, None, TRAIN_FILE_PATH, TEST_FILE_PATH,
                           DRIFT_REPORT_FILE_PATH)

\* lines 150-157
RejectedArtifact(vtrain, vtest) ==
    DataValidationArtifact(FALSE, None, None,
                           IF ~vtrain THEN TRAIN_FILE_PATH ELSE None,
                           IF ~vtest THEN TEST_FILE_PATH ELSE None,
                           DRIFT_REPORT_FILE_PATH)

\* faulty variant: names the ingested files as invalid as well
DoneArtifact_withInvalid(status) ==
    DataValidationArtifact(status, VALID_TRAIN_FILE_PATH, VALID_TEST_FILE_PATH,
                           TRAIN_FILE_PATH, TEST_FILE_PATH, DRIFT_REPORT_FILE_PATH)

\* lines 167-174
DoneArtifact(status) ==
    DataValidationArtifact(status, VALID_TRAIN_FILE_PATH, VALID_TEST_FILE_PATH,
                           None, None, DRIFT_REPORT_FILE_PATH)

\* faulty variant: rejects only when both tables fail
SchemaRejects_bothFail(vtrain, vtest) == ~vtrain /\ ~vtest

\* line 148
SchemaRejects(vtrain, vtest) == ~(vtrain /\ vtest)

\* faulty variant: a column-count mismatch is raised instead of returned
Reject_raises ==
    /\ pc = "Checked"
    /\ SchemaRejects(valid_train[1], valid_test[1])
    /\ Raise("ValueError")
    /\ UNCHANGED <<inputs, outputs, train_dataframe, test_dataframe, valid_train,
                   valid_test, drift_status, artifact, trace>>

\* lines 148-157
Reject ==
    /\ pc = "Checked"
    /\ SchemaRejects(valid_train[1], valid_test[1])
    /\ artifact' = <<RejectedArtifact(valid_train[1], valid_test[1])>>
    /\ pc' = "Rejected"
    /\ Step("return")
    /\ UNCHANGED <<inputs, outputs, train_dataframe, test_dataframe, valid_train,
                   valid_test, drift_status, raised>>

\* faulty variant: a report already at the path is taken for this run's
DetectDrift_reusesReport ==
    /\ pc = "Checked"
    /\ ~SchemaRejects(valid_train[1], valid_test[1])
    /\ LET r == detect_dataset_drift(train_dataframe[1], test_dataframe[1],
                                     threshold, ks_empty_raises)
       IN /\ r.raised = None
          /\ drift_report_file' = IF drift_report_file # <<>> THEN drift_report_file
                                  ELSE <<r.report>>
          /\ drift_status' = IF drift_report_file # <<>> THEN <<TRUE>>
                             ELSE <<r.status>>
    /\ pc' = "DriftChecked"
    /\ trace' = trace \o <<"detect_dataset_drift", "write_report">>
    /\ UNCHANGED <<inputs, valid_train_file, valid_test_file, train_dataframe,
                   test_dataframe, valid_train, valid_test, artifact, raised>>

\* faulty variant: the records are added to the report already at the path
DetectDrift_mergesReport ==
    /\ pc = "Checked"
    /\ ~SchemaRejects(valid_train[1], valid_test[1])
    /\ LET r == detect_dataset_drift(train_dataframe[1], test_dataframe[1],
                                     threshold, ks_empty_raises)
           old == IF drift_report_file = <<>> THEN EmptyReport
                  ELSE drift_report_file[1]
       IN /\ r.raised = None
          /\ drift_report_file' =
                <<[c \in DOMAIN old \cup DOMAIN r.report |->
                     IF c \in DOMAIN r.report THEN r.report[c] ELSE old[c]]>>
          /\ drift_status' = <<r.status>>
    /\ pc' = "DriftChecked"
    /\ trace' = trace \o <<"detect_dataset_drift", "write_report">>
    /\ UNCHANGED <<inputs, valid_train_file, valid_test_file, train_dataframe,
                   test_dataframe, valid_train, valid_test, artifact, raised>>

\* faulty variant: the null values are dropped from the tables themselves
DetectDrift_dropnaInPlace ==
    /\ pc = "Checked"
    /\ ~SchemaRejects(valid_train[1], valid_test[1])
    /\ LET r == detect_dataset_drift(train_dataframe[1], test_dataframe[1],
                                     threshold, ks_empty_raises)
           Dropped(df) == [df EXCEPT !.data = [c \in DOMAIN df.data |->
                                                  dropna(df.data[c])]]
       IN /\ r.raised = None
          /\ drift_report_file' = <<r.report>>
          /\ drift_status' = <<r.status>>
          /\ train_dataframe' = <<Dropped(train_dataframe[1])>>
          /\ test_dataframe' = <<Dropped(test_dataframe[1])>>
    /\ pc' = "DriftChecked"
    /\ trace' = trace \o <<"detect_dataset_drift", "write_report">>
    /\ UNCHANGED <<inputs, valid_train_file, valid_test_file, valid_train,
                   valid_test, artifact, raised>>

\* line 160 with lines 89-124: the comparison loop, then the report is saved
DetectDrift ==
    /\ pc = "Checked"
    /\ ~SchemaRejects(valid_train[1], valid_test[1])
    /\ LET r == detect_dataset_drift(train_dataframe[1], test_dataframe[1],
                                     threshold, ks_empty_raises)
       IN /\ r.raised = None
          /\ drift_report_file' = <<r.report>>
          /\ drift_status' = <<r.status>>
    /\ pc' = "DriftChecked"
    /\ trace' = trace \o <<"detect_dataset_drift", "write_report">>
    /\ UNCHANGED <<inputs, valid_train_file, valid_test_file, train_dataframe,
                   test_dataframe, valid_train, valid_test, artifact, raised>>

\* a comparison inside the loop raises: nothing is saved
DetectDriftCompareRaises ==
    /\ pc = "Checked"
    /\ ~SchemaRejects(valid_train[1], valid_test[1])
    /\ LET r == detect_dataset_drift(train_dataframe[1], test_dataframe[1],
                                     threshold, ks_empty_raises)
       IN /\ r.raised # None
          /\ Raise(r.raised)
    /\ Step("detect_dataset_drift")
    /\ UNCHANGED <<inputs, outputs, train_dataframe, test_dataframe, valid_train,
                   valid_test, drift_status, artifact>>

\* lines 121-122 fail
DetectDriftWriteFails ==
    /\ pc = "Checked"
    /\ ~SchemaRejects(valid_train[1], valid_test[1])
    /\ detect_dataset_drift(train_dataframe[1], test_dataframe[1],
                            threshold, ks_empty_raises).raised = None
    /\ Raise("IOError")
    /\ Step("detect_dataset_drift")
    /\ UNCHANGED <<inputs, outputs, train_dataframe, test_dataframe, valid_train,
                   valid_test, drift_status, artifact>>

\* faulty variant: a valid train table already at the path is left as it is
PersistTrain_keepsExisting ==
    /\ pc = "DriftChecked"
    /\ valid_train_file' = IF valid_train_file # <<>> THEN valid_train_file
                           ELSE <<ToCsv(train_dataframe[1])>>
    /\ pc' = "TrainPersisted"
    /\ Step("write_valid_train")
    /\ UNCHANGED <<inputs, drift_report_file, valid_test_file, train_dataframe,
                   test_dataframe, valid_train, valid_test, drift_status, artifact,
                   raised>>

\* lines 163-164
PersistTrain ==
    /\ pc = "DriftChecked"
    /\ valid_train_file' = <<ToCsv(train_dataframe[1])>>
    /\ pc' = "TrainPersisted"
    /\ Step("write_valid_train")
    /\ UNCHANGED <<inputs, drift_report_file, valid_test_file, train_dataframe,
                   test_dataframe, valid_train, valid_test, drift_status, artifact,
                   raised>>

PersistTrainFails ==
    /\ pc = "DriftChecked"
    /\ Raise("IOError")
    /\ UNCHANGED <<inputs, outputs, train_dataframe, test_dataframe, valid_train,
                   valid_test, drift_status, artifact, trace>>

\* faulty variant: the test table is persisted only when no drift was detected
PersistTest_unlessDrift ==
    /\ pc = "TrainPersisted"
    /\ valid_test_file' = IF drift_status[1] THEN <<ToCsv(test_dataframe[1])>>
                          ELSE valid_test_file
    /\ pc' = "TestPersisted"
    /\ Step("write_valid_test")
    /\ UNCHANGED <<inputs, drift_report_file, valid_train_file, train_dataframe,
                   test_dataframe, valid_train, valid_test, drift_status, artifact,
                   raised>>

\* line 165
PersistTest ==
    /\ pc = "TrainPersisted"
    /\ valid_test_file' = <<ToCsv(test_dataframe[1])>>
    /\ pc' = "TestPersisted"
    /\ Step("write_valid_test")
    /\ UNCHANGED <<inputs, drift_report_file, valid_train_file, train_dataframe,
                   test_dataframe, valid_train, valid_test, drift_status, artifact,
                   raised>>

\* faulty variant: the failed write is recorded and the run carries on
PersistTestFails_swallowed ==
    /\ pc = "TrainPersisted"
    /\ raised' = "IOError"
    /\ pc' = "TestPersisted"
    /\ UNCHANGED <<inputs, outputs, train_dataframe, test_dataframe, valid_train,
                   valid_test, drift_status, artifact, trace>>

PersistTestFails ==
    /\ pc = "TrainPersisted"
    /\ Raise("IOError")
    /\ UNCHANGED <<inputs, outputs, train_dataframe, test_dataframe, valid_train,
                   valid_test, drift_status, artifact, trace>>

\* faulty variant: the result is returned once the valid train table is written
Return_beforeTestWritten ==
    /\ pc \in {"TrainPersisted", "TestPersisted"}
    /\ artifact' = <<DoneArtifact(drift_status[1])>>
    /\ pc' = "Done"
    /\ Step("return")
    /\ UNCHANGED <<inputs, outputs, train_dataframe, test_dataframe, valid_train,
                   valid_test, drift_status, raised>>

\* lines 167-174
Return ==
    /\ pc = "TestPersisted"
    /\ artifact' = <<DoneArtifact(drift_status[1])>>
    /\ pc' = "Done"
    /\ Step("return")
    /\ UNCHANGED <<inputs, outputs, train_dataframe, test_dataframe, valid_train,
                   valid_test, drift_status, raised>>

Next ==
    \/ ReadTrain \/ ReadTrainFails
    \/ ReadTest \/ ReadTestFails
    \/ ValidateTrain
    \/ ValidateTest
    \/ Reject
    \/ DetectDrift \/ DetectDriftCompareRaises \/ DetectDriftWriteFails
    \/ PersistTrain \/ PersistTrainFails
    \/ PersistTest \/ PersistTestFails
    \/ Return

Spec == Init /\ [][Next]_vars

(***************************************************************************)
(* DataValidation(...) constructed on any schema file, then run            *)
(***************************************************************************)
ConstructHeaders == {<<"A">>}

SchemaFiles ==
    {SchemaFile(cols) : cols \in Schemas}
        \cup {SchemaFileWithoutColumns, SchemaFileUnparsable, SchemaFileAbsent}

\* before DataValidation.__init__
InitConstruct ==
    /\ schema_yaml \in SchemaFiles
    /\ schema_config = <<>>
    /\ train_file \in CsvFiles(ConstructHeaders)
    /\ test_file \in CsvFiles(ConstructHeaders)
    /\ SameDataset(ReadCsv(train_file), ReadCsv(test_file))
    /\ ks_empty_raises \in BOOLEAN
    /\ get_positional \in BOOLEAN
    /\ threshold = DefaultThreshold
    /\ RunStart
    /\ Fresh
    /\ pc = "New"

\* lines 43-48: read_yaml_file returns whatever mapping the file parses to
Construct ==
    /\ pc = "New"
    /\ schema_yaml.state = "parsed"
    /\ schema_config' = IF HasColumns(schema_yaml) THEN schema_yaml.content.columns
                        ELSE <<>>
    /\ pc' = "Start"
    /\ Step("read_yaml_file")
    /\ UNCHANGED <<schema_yaml, train_file, test_file, ks_empty_raises, threshold,
                   get_positional, clock, default_timestamp, configs,
      data_ingestion_artifact, model_trainer_artifact,
                   previous, transform_outputs, transform_artifact, outputs,
                   train_dataframe, test_dataframe, valid_train, valid_test,
                   drift_status, artifact, raised>>

\* lines 49-50: open or yaml.safe_load failed inside read_yaml_file
ConstructFails ==
    /\ pc = "New"
    /\ schema_yaml.state # "parsed"
    /\ Raise(IF schema_yaml.state = "absent" THEN "FileNotFoundError"
             ELSE "YAMLError")
    /\ UNCHANGED <<inputs, outputs, train_dataframe, test_dataframe, valid_train,
                   valid_test, drift_status, artifact, trace>>

\* line 66 on a schema without "columns": the first call of
\* validate_no_of_columns, at line 145, raises KeyError
ValidateTrainKeyError ==
    /\ pc = "TestRead"
    /\ ~HasColumns(schema_yaml)
    /\ Raise("KeyError")
    /\ UNCHANGED <<inputs, outputs, train_dataframe, test_dataframe, valid_train,
                   valid_test, drift_status, artifact, trace>>

NextConstruct == Construct \/ ConstructFails \/ ValidateTrainKeyError \/ Next

SpecConstruct == InitConstruct /\ [][NextConstruct]_vars

(***************************************************************************)
(* The stage run a second time on the same files, schema and config, with  *)
(* or without a report of an earlier dataset at the report path            *)
(***************************************************************************)
RerunTrainHeaders == {<<"A">>}
RerunTestHeaders == {<<"A">>, <<"A", "C">>}

\* a report left by a run on an earlier dataset with the columns A and B
StaleReport ==
    [c \in {"A", "B"} |-> [p_value |-> [num |-> 0, den |-> 1],
                           drift_detected |-> TRUE]]

InitRerun ==
    /\ schema_config \in Schemas
    /\ schema_yaml = SchemaFile(schema_config)
    /\ train_file \in CsvFiles(RerunTrainHeaders)
    /\ test_file \in CsvFiles(RerunTestHeaders)
    /\ SameDataset(ReadCsv(train_file), ReadCsv(test_file))
    /\ ks_empty_raises \in BOOLEAN
    /\ get_positional \in BOOLEAN
    /\ threshold = DefaultThreshold
    /\ RunStart
    /\ drift_report_file \in {<<>>, <<StaleReport>>}
    /\ valid_train_file = <<>>
    /\ valid_test_file = <<>>
    /\ previous = <<>>
    /\ transform_outputs = {}
    /\ transform_artifact = <<>>
    /\ OneConfig
    /\ Ingested
    /\ pc = "Start"

\* what a run left: what it returned or raised, and the report at the path
Outcome ==
    [artifact |-> artifact, raised |-> raised, drift_status |-> drift_status,
     report |-> drift_report_file, valid_train_file |-> valid_train_file,
     valid_test_file |-> valid_test_file]

\* a file opened for writing whose write then failed: truncated, nothing in it
TruncatedReport == EmptyReport
TruncatedCsv == [header |-> <<>>, rows |-> <<>>]

\* line 122 fails after open(file_path, "w")
DetectDriftWriteTruncates ==
    /\ pc = "Checked"
    /\ ~SchemaRejects(valid_train[1], valid_test[1])
    /\ detect_dataset_drift(train_dataframe[1], test_dataframe[1],
                            threshold, ks_empty_raises).raised = None
    /\ drift_report_file' = <<TruncatedReport>>
    /\ Raise("IOError")
    /\ Step("detect_dataset_drift")
    /\ UNCHANGED <<inputs, valid_train_file, valid_test_file, train_dataframe,
                   test_dataframe, valid_train, valid_test, drift_status, artifact>>

\* line 164 fails after the file was opened
PersistTrainTruncates ==
    /\ pc = "DriftChecked"
    /\ valid_train_file' = <<TruncatedCsv>>
    /\ Raise("IOError")
    /\ UNCHANGED <<inputs, drift_report_file, valid_test_file, train_dataframe,
                   test_dataframe, valid_train, valid_test, drift_status, artifact,
                   trace>>

\* line 165 fails after the file was opened
PersistTestTruncates ==
    /\ pc = "TrainPersisted"
    /\ valid_test_file' = <<TruncatedCsv>>
    /\ Raise("IOError")
    /\ UNCHANGED <<inputs, drift_report_file, valid_train_file, train_dataframe,
                   test_dataframe, valid_train, valid_test, drift_status, artifact,
                   trace>>

\* a new DataValidation on the same artifact and config runs once more; the
\* files written by the first run are still there
Rerun ==
    /\ pc \in {"Done", "Rejected", "Raised"}
    /\ previous = <<>>
    /\ previous' = <<Outcome>>
    /\ train_dataframe' = <<>>
    /\ test_dataframe' = <<>>
    /\ valid_train' = <<>>
    /\ valid_test' = <<>>
    /\ drift_status' = <<>>
    /\ artifact' = <<>>
    /\ raised' = None
    /\ trace' = <<>>
    /\ pc' = "Start"
    /\ UNCHANGED <<schema_yaml, schema_config, train_file, test_file,
                   ks_empty_raises, get_positional, threshold, transform_outputs,
                   clock, default_timestamp, configs,
      data_ingestion_artifact, model_trainer_artifact,
                   transform_artifact, outputs>>

NextRerun ==
    \/ Rerun
    \/ DetectDriftWriteTruncates \/ PersistTrainTruncates \/ PersistTestTruncates
    \/ Next

SpecRerun == InitRerun /\ [][NextRerun]_vars

(***************************************************************************)
(* main.py: the validation artifact handed to initiate_data_transformation *)
(***************************************************************************)
TARGET_COLUMN == "Result"
TRANSFORMED_TRAIN_FILE_PATH == "data_transformation/transformed/train.npy"
TRANSFORMED_TEST_FILE_PATH == "data_transformation/transformed/test.npy"
TRANSFORMED_OBJECT_FILE_PATH ==
    "data_transformation/transformed_object/preprocessing.pkl"

PipelineHeaders == {<<"A", "Result">>}
PipelineSchemas == {<<"A">>, <<"A", "Result">>}

InitPipeline ==
    /\ schema_config \in PipelineSchemas
    /\ schema_yaml = SchemaFile(schema_config)
    /\ train_file \in CsvFiles(PipelineHeaders)
    /\ test_file \in CsvFiles(PipelineHeaders)
    /\ SameDataset(ReadCsv(train_file), ReadCsv(test_file))
    /\ ks_empty_raises \in BOOLEAN
    /\ get_positional \in BOOLEAN
    /\ threshold = DefaultThreshold
    /\ RunStart
    /\ Fresh
    /\ pc = "Start"

\* what the steps of initiate_data_transformation leave alone
validation_state ==
    <<schema_yaml, schema_config, train_file, test_file, ks_empty_raises,
      get_positional, clock, default_timestamp, configs,
      data_ingestion_artifact, model_trainer_artifact,
      threshold, previous, outputs, train_dataframe, test_dataframe, valid_train,
      valid_test, drift_status, artifact>>

\* the except clause of line 155
TransformRaise(kind) ==
    /\ raised' = kind
    /\ pc' = "TransformRaised"

\* faulty variant: with no valid path the ingested train file is read instead
TransformReadTrain_fallsBack ==
    /\ pc \in {"Done", "Rejected"}
    /\ pc' = "ValidTrainRead"
    /\ Step("read_valid_train")
    /\ UNCHANGED <<validation_state, transform_outputs, transform_artifact, raised>>

\* line 112: read_data(valid_train_file_path)
TransformReadTrain ==
    /\ pc \in {"Done", "Rejected"}
    /\ artifact[1].valid_train_file_path # None
    /\ valid_train_file # <<>>
    /\ pc' = "ValidTrainRead"
    /\ Step("read_valid_train")
    /\ UNCHANGED <<validation_state, transform_outputs, transform_artifact, raised>>

\* pd.read_csv(None) raises ValueError; a path may also fail to be read
TransformReadTrainFails ==
    /\ pc \in {"Done", "Rejected"}
    /\ TransformRaise(IF artifact[1].valid_train_file_path = None
                      THEN "ValueError" ELSE "IOError")
    /\ UNCHANGED <<validation_state, transform_outputs, transform_artifact, trace>>

\* line 113: read_data(valid_test_file_path)
TransformReadTest ==
    /\ pc = "ValidTrainRead"
    /\ artifact[1].valid_test_file_path # None
    /\ valid_test_file # <<>>
    /\ pc' = "ValidTestRead"
    /\ Step("read_valid_test")
    /\ UNCHANGED <<validation_state, transform_outputs, transform_artifact, raised>>

TransformReadTestFails ==
    /\ pc = "ValidTrainRead"
    /\ TransformRaise(IF artifact[1].valid_test_file_path = None
                      THEN "ValueError" ELSE "IOError")
    /\ UNCHANGED <<validation_state, transform_outputs, transform_artifact, trace>>

\* the columns left by drop(columns=[TARGET_COLUMN])
Features(df) == SelectSeq(df.columns, LAMBDA c : c # TARGET_COLUMN)

\* lines 116-137: None, or the exception raised while the target is split off
\* and the KNNImputer is fitted on the train features and applied to both
\* tables (it takes numbers only, at least one row, and the columns it was
\* fitted on)
TransformOutcome(train_df, test_df) ==
    IF \/ TARGET_COLUMN \notin Range(train_df.columns)
       \/ TARGET_COLUMN \notin Range(test_df.columns)
    THEN "KeyError"
    ELSE IF /\ NRows(train_df) > 0
            /\ NRows(test_df) > 0
            /\ Features(train_df) # <<>>
            /\ Features(test_df) = Features(train_df)
            /\ \A c \in Range(Features(train_df)) :
                   /\ is_numeric_dtype(train_df.dtype[c])
                   /\ is_numeric_dtype(test_df.dtype[c])
         THEN None
         ELSE "ValueError"

TransformFit ==
    /\ pc = "ValidTestRead"
    /\ TransformOutcome(ReadCsv(valid_train_file[1]),
                        ReadCsv(valid_test_file[1])) = None
    /\ pc' = "Transformed"
    /\ Step("fit_transform")
    /\ UNCHANGED <<validation_state, transform_outputs, transform_artifact, raised>>

TransformFitRaises ==
    /\ pc = "ValidTestRead"
    /\ LET kind == TransformOutcome(ReadCsv(valid_train_file[1]),
                                    ReadCsv(valid_test_file[1]))
       IN /\ kind # None
          /\ TransformRaise(kind)
    /\ UNCHANGED <<validation_state, transform_outputs, transform_artifact, trace>>

\* line 140
SaveTrainArray ==
    /\ pc = "Transformed"
    /\ transform_outputs' = transform_outputs \cup {TRANSFORMED_TRAIN_FILE_PATH}
    /\ pc' = "TrainArraySaved"
    /\ Step("save_train_array")
    /\ UNCHANGED <<validation_state, transform_artifact, raised>>

SaveTrainArrayFails ==
    /\ pc = "Transformed"
    /\ TransformRaise("IOError")
    /\ UNCHANGED <<validation_state, transform_outputs, transform_artifact, trace>>

\* line 141
SaveTestArray ==
    /\ pc = "TrainArraySaved"
    /\ transform_outputs' = transform_outputs \cup {TRANSFORMED_TEST_FILE_PATH}
    /\ pc' = "TestArraySaved"
    /\ Step("save_test_array")
    /\ UNCHANGED <<validation_state, transform_artifact, raised>>

SaveTestArrayFails ==
    /\ pc = "TrainArraySaved"
    /\ TransformRaise("IOError")
    /\ UNCHANGED <<validation_state, transform_outputs, transform_artifact, trace>>

\* line 144
SaveObject ==
    /\ pc = "TestArraySaved"
    /\ transform_outputs' = transform_outputs \cup {TRANSFORMED_OBJECT_FILE_PATH}
    /\ pc' = "ObjectSaved"
    /\ Step("save_object")
    /\ UNCHANGED <<validation_state, transform_artifact, raised>>

SaveObjectFails ==
    /\ pc = "TestArraySaved"
    /\ TransformRaise("IOError")
    /\ UNCHANGED <<validation_state, transform_outputs, transform_artifact, trace>>

\* lines 147-153
TransformReturn ==
    /\ pc = "ObjectSaved"
    /\ transform_artifact' =
          <<[transformed_object_file_path |-> TRANSFORMED_OBJECT_FILE_PATH,
             transformed_train_file_path  |-> TRANSFORMED_TRAIN_FILE_PATH,
             transformed_test_file_path   |-> TRANSFORMED_TEST_FILE_PATH]>>
    /\ pc' = "TransformDone"
    /\ Step("return_transformation")
    /\ UNCHANGED <<validation_state, transform_outputs, raised>>

initiate_data_transformation ==
    \/ TransformReadTrain \/ TransformReadTrainFails
    \/ TransformReadTest \/ TransformReadTestFails
    \/ TransformFit \/ TransformFitRaises
    \/ SaveTrainArray \/ SaveTrainArrayFails
    \/ SaveTestArray \/ SaveTestArrayFails
    \/ SaveObject \/ SaveObjectFails
    \/ TransformReturn

NextPipeline == Next \/ initiate_data_transformation

SpecPipeline == InitPipeline /\ [][NextPipeline]_vars

(***************************************************************************)
(* main.py: the four stages of one run, under a single try/except          *)
(***************************************************************************)
TRAINED_MODEL_FILE_PATH == "model_trainer/trained_model/model.pkl"

DriverSchemaFiles ==
    {SchemaFile(cols) : cols \in PipelineSchemas} \cup {SchemaFileAbsent}

\* main.py line 18: nothing has run; train_file and test_file are the split
\* of the collection's records that ingestion will have written when it returns
InitDriver ==
    /\ schema_yaml \in DriverSchemaFiles
    /\ schema_config = <<>>
    /\ train_file \in CsvFiles(PipelineHeaders)
    /\ test_file \in CsvFiles(PipelineHeaders)
    /\ SameDataset(ReadCsv(train_file), ReadCsv(test_file))
    /\ ks_empty_raises \in BOOLEAN
    /\ get_positional \in BOOLEAN
    /\ threshold = DefaultThreshold
    /\ RunStart
    /\ OneConfig
    /\ drift_report_file = <<>>
    /\ valid_train_file = <<>>
    /\ valid_test_file = <<>>
    /\ previous = <<>>
    /\ transform_outputs = {}
    /\ transform_artifact = <<>>
    /\ data_ingestion_artifact = <<>>
    /\ model_trainer_artifact = <<>>
    /\ pc = "Main"

\* what ingestion and training leave alone
stage_state ==
    <<schema_yaml, schema_config, train_file, test_file, ks_empty_raises,
      get_positional, clock, default_timestamp, configs, threshold, previous,
      outputs, train_dataframe, test_dataframe, valid_train, valid_test,
      drift_status, artifact, transform_outputs, transform_artifact>>

\* main.py lines 5-13: an import fails (a module main.py names is not
\* installed), before the try of line 19 is entered
ImportRaises ==
    /\ pc = "Main"
    /\ raised' = "ImportError"
    /\ pc' = "ImportRaised"
    /\ UNCHANGED <<stage_state, data_ingestion_artifact, model_trainer_artifact,
                   trace>>

\* main.py lines 22-27: initiate_data_ingestion returns its artifact
InitiateDataIngestion ==
    /\ pc = "Main"
    /\ data_ingestion_artifact' = <<DataIngestionArtifact>>
    /\ pc' = "New"
    /\ Step("initiate_data_ingestion")
    /\ UNCHANGED <<stage_state, model_trainer_artifact, raised>>

\* data_ingestion.py lines 175-176, then main.py lines 58-60
InitiateDataIngestionRaises ==
    /\ pc = "Main"
    /\ raised' = "NetworkSecurityException"
    /\ pc' = "IngestionRaised"
    /\ UNCHANGED <<stage_state, data_ingestion_artifact, model_trainer_artifact,
                   trace>>

ModelTrainerArtifact ==
    [trained_model_file_path |-> TRAINED_MODEL_FILE_PATH]

\* faulty variant: training is started whether or not transformation returned
InitiateModelTrainer_regardless ==
    /\ pc \in {"TransformDone", "TransformRaised"}
    /\ model_trainer_artifact' = <<ModelTrainerArtifact>>
    /\ pc' = "Trained"
    /\ Step("initiate_model_trainer")
    /\ UNCHANGED <<stage_state, data_ingestion_artifact, raised>>

\* main.py lines 44-47: initiate_model_trainer returns its artifact
InitiateModelTrainer ==
    /\ pc = "TransformDone"
    /\ model_trainer_artifact' = <<ModelTrainerArtifact>>
    /\ pc' = "Trained"
    /\ Step("initiate_model_trainer")
    /\ UNCHANGED <<stage_state, data_ingestion_artifact, raised>>

\* main.py lines 44-47 raise, then lines 58-60
InitiateModelTrainerRaises ==
    /\ pc = "TransformDone"
    /\ raised' = "NetworkSecurityException"
    /\ pc' = "TrainingRaised"
    /\ UNCHANGED <<stage_state, data_ingestion_artifact, model_trainer_artifact,
                   trace>>

NextDriver ==
    \/ ImportRaises
    \/ InitiateDataIngestion \/ InitiateDataIngestionRaises
    \/ Construct \/ ConstructFails
    \/ Next
    \/ initiate_data_transformation
    \/ InitiateModelTrainer \/ InitiateModelTrainerRaises

SpecDriver == InitDriver /\ [][NextDriver]_vars

(***************************************************************************)
(* TrainingPipelineConfig objects created by one or two processes          *)
(***************************************************************************)
TicksPerSecond == 2
ARTIFACT_DIR == "Artifacts"

\* timestamp.strftime("%d_%m_%Y_%H_%M_%S"): the timestamp down to its second
strftime(timestamp) == timestamp \div TicksPerSecond

\* os.path.join
Join(dir, name) == <<dir, name>>

\* config_entity.py lines 32-48
TrainingPipelineConfig(process, timestamp) ==
    [process      |-> process,
     timestamp    |-> strftime(timestamp),
     artifact_dir |-> Join(ARTIFACT_DIR, strftime(timestamp))]

\* config_entity.py lines 146-188, the paths a run writes
DataValidationConfig(training_pipeline_config) ==
    [valid_train_file_path  |->
         Join(training_pipeline_config.artifact_dir, VALID_TRAIN_FILE_PATH),
     valid_test_file_path   |->
         Join(training_pipeline_config.artifact_dir, VALID_TEST_FILE_PATH),
     drift_report_file_path |->
         Join(training_pipeline_config.artifact_dir, DRIFT_REPORT_FILE_PATH)]

InitConfig ==
    /\ schema_config = <<"A">>
    /\ schema_yaml = SchemaFile(schema_config)
    /\ train_file = CsvOf(<<"A">>, 0, <<>>)
    /\ test_file = CsvOf(<<"A">>, 0, <<>>)
    /\ ks_empty_raises = FALSE
    /\ get_positional = FALSE
    /\ threshold = DefaultThreshold
    /\ RunStart
    /\ Fresh
    /\ pc = "NoRun"

run_state ==
    <<schema_yaml, schema_config, train_file, test_file, ks_empty_raises,
      get_positional, threshold, previous, transform_outputs, transform_artifact,
      outputs, train_dataframe, test_dataframe, valid_train, valid_test,
      drift_status, artifact, raised, trace, data_ingestion_artifact,
      model_trainer_artifact, pc>>

\* time passes
Tick ==
    /\ clock < MaxClock
    /\ clock' = clock + 1
    /\ UNCHANGED <<run_state, default_timestamp, configs>>

\* a process imports config_entity: the def of line 32 is executed and its
\* default, datetime.now(), is evaluated, once
Import(p) ==
    /\ default_timestamp[p] = <<>>
    /\ default_timestamp' = [default_timestamp EXCEPT ![p] = <<clock>>]
    /\ UNCHANGED <<run_state, clock, configs>>

\* main.py line 20: TrainingPipelineConfig()
NewConfig(p) ==
    /\ default_timestamp[p] # <<>>
    /\ Len(configs) < MaxConfigs
    /\ configs' = Append(configs,
                         TrainingPipelineConfig(p, default_timestamp[p][1]))
    /\ UNCHANGED <<run_state, clock, default_timestamp>>

\* TrainingPipelineConfig(timestamp=datetime.now())
NewConfigNow(p) ==
    /\ default_timestamp[p] # <<>>
    /\ Len(configs) < MaxConfigs
    /\ configs' = Append(configs, TrainingPipelineConfig(p, clock))
    /\ UNCHANGED <<run_state, clock, default_timestamp>>

NextConfig ==
    \/ Tick
    \/ \E p \in Processes : Import(p) \/ NewConfig(p) \/ NewConfigNow(p)

SpecConfig == InitConfig /\ [][NextConfig]_vars

(***************************************************************************)
(* detect_dataset_drift called on its own, with any threshold              *)
(***************************************************************************)
\* Samples, and two more text columns: "x" with a last missing value; all "y"
DetectSamples(n) ==
    Samples(n) \cup {[i \in 1..n |-> IF i = n THEN "" ELSE "x"],
                     [i \in 1..n |-> "y"]}

DetectHeaders == {<<"A">>, <<"A", "B">>}

DetectFiles ==
    UNION {UNION {{CsvOf(header, n, cols) :
                     cols \in [1..Len(header) -> DetectSamples(n)]} :
                  n \in RowCounts} :
           header \in DetectHeaders}

\* the default threshold, and one that a distance can be equal to
Thresholds == {DefaultThreshold, [num |-> 1, den |-> 1]}

\* the call detect_dataset_drift(base_df, current_df, threshold) is about to run
InitDetect ==
    /\ schema_config = <<"A">>
    /\ schema_yaml = SchemaFile(schema_config)
    /\ train_file \in DetectFiles
    /\ test_file \in DetectFiles
    /\ SameDataset(ReadCsv(train_file), ReadCsv(test_file))
    /\ ks_empty_raises \in BOOLEAN
    /\ get_positional \in BOOLEAN
    /\ threshold \in Thresholds
    /\ train_dataframe = <<ReadCsv(train_file)>>
    /\ test_dataframe = <<ReadCsv(test_file)>>
    /\ valid_train = <<>>
    /\ valid_test = <<>>
    /\ drift_status = <<>>
    /\ artifact = <<>>
    /\ raised = None
    /\ trace = <<>>
    /\ Fresh
    /\ pc = "DetectCalled"

\* lines 89-124: the loop, the report saved, the status returned
DetectCall ==
    /\ pc = "DetectCalled"
    /\ LET r == detect_dataset_drift(train_dataframe[1], test_dataframe[1],
                                     threshold, ks_empty_raises)
       IN /\ r.raised = None
          /\ drift_report_file' = <<r.report>>
          /\ drift_status' = <<r.status>>
    /\ pc' = "DetectReturned"
    /\ trace' = trace \o <<"detect_dataset_drift", "write_report">>
    /\ UNCHANGED <<inputs, valid_train_file, valid_test_file, train_dataframe,
                   test_dataframe, valid_train, valid_test, artifact, raised>>

\* a comparison raises; line 126 re-raises it
DetectCallCompareRaises ==
    /\ pc = "DetectCalled"
    /\ LET r == detect_dataset_drift(train_dataframe[1], test_dataframe[1],
                                     threshold, ks_empty_raises)
       IN /\ r.raised # None
          /\ Raise(r.raised)
    /\ Step("detect_dataset_drift")
    /\ UNCHANGED <<inputs, outputs, train_dataframe, test_dataframe, valid_train,
                   valid_test, drift_status, artifact>>

\* lines 121-122 fail
DetectCallWriteFails ==
    /\ pc = "DetectCalled"
    /\ detect_dataset_drift(train_dataframe[1], test_dataframe[1],
                            threshold, ks_empty_raises).raised = None
    /\ Raise("IOError")
    /\ Step("detect_dataset_drift")
    /\ UNCHANGED <<inputs, outputs, train_dataframe, test_dataframe, valid_train,
                   valid_test, drift_status, artifact>>

NextDetect == DetectCall \/ DetectCallCompareRaises \/ DetectCallWriteFails

SpecDetect == InitDetect /\ [][NextDetect]_vars

(***************************************************************************)
(* detect_dataset_drift called on two one-column tables of any types       *)
(***************************************************************************)
DispatchHeaders == {<<"A">>}

DispatchFiles ==
    UNION {UNION {{CsvOf(header, n, cols) :
                     cols \in [1..Len(header) -> DetectSamples(n)]} :
                  n \in RowCounts} :
           header \in DispatchHeaders}

InitDispatch ==
    /\ schema_config = <<"A">>
    /\ schema_yaml = SchemaFile(schema_config)
    /\ train_file \in DispatchFiles
    /\ test_file \in DispatchFiles
    /\ ks_empty_raises \in BOOLEAN
    /\ get_positional \in BOOLEAN
    /\ threshold \in Thresholds
    /\ train_dataframe = <<ReadCsv(train_file)>>
    /\ test_dataframe = <<ReadCsv(test_file)>>
    /\ valid_train = <<>>
    /\ valid_test = <<>>
    /\ drift_status = <<>>
    /\ artifact = <<>>
    /\ raised = None
    /\ trace = <<>>
    /\ Fresh
    /\ pc = "DetectCalled"

SpecDispatch == InitDispatch /\ [][NextDetect]_vars

(***************************************************************************)
(* Facts about the inputs, stated on the files and the schema              *)
(***************************************************************************)
TrainFails == Len(train_file.header) # Len(schema_config)
TestFails == Len(test_file.header) # Len(schema_config)
BothChecked == valid_train # <<>> /\ valid_test # <<>>
Performed(step) == step \in Range(trace)

(***************************************************************************)
(* C1: validate_no_of_columns returns true exactly when the table has as   *)
(* many columns as the schema has entries: false for every table whose     *)
(* column count differs, true for every table holding exactly the schema's *)
(* columns, in any order.                                                  *)
(***************************************************************************)
C1_ColumnCountDecides ==
    /\ valid_train # <<>> =>
          /\ valid_train[1] <=> Len(train_file.header) = Len(schema_config)
          /\ (/\ Range(train_file.header) = Range(schema_config)
              /\ Len(train_file.header) = Len(schema_config)) => valid_train[1]
    /\ valid_test # <<>> =>
          /\ valid_test[1] <=> Len(test_file.header) = Len(schema_config)
          /\ (/\ Range(test_file.header) = Range(schema_config)
              /\ Len(test_file.header) = Len(schema_config)) => valid_test[1]

\* the train table has too few columns and is refused; the test table holds
\* the schema's columns in another order and is accepted
C1_Witness ==
    /\ valid_train = <<FALSE>>
    /\ Len(train_file.header) < Len(schema_config)
    /\ valid_test = <<TRUE>>
    /\ test_file.header # schema_config
    /\ Range(test_file.header) = Range(schema_config)

(***************************************************************************)
(* C2: when the column check fails for the train table, the test table or  *)
(* both, the run ends in Rejected with validation_status false, the valid  *)
(* paths unset, the report path set to the configured one, and each        *)
(* invalid path set to the ingestion path exactly when that table failed;  *)
(* the test table is checked even when the train table failed.             *)
(***************************************************************************)
C2_RejectedResult ==
    /\ (pc = "TrainChecked" /\ TrainFails) => ENABLED ValidateTest
    /\ (BothChecked /\ (TrainFails \/ TestFails)) =>
          /\ pc \in {"Checked", "Rejected"}
          /\ pc = "Checked" => ENABLED Reject
          /\ pc = "Rejected" =>
                /\ Performed("validate_train") /\ Performed("validate_test")
                /\ artifact =
                     <<[validation_status       |-> FALSE,
                        valid_train_file_path   |-> None,
                        valid_test_file_path    |-> None,
                        invalid_train_file_path |->
                            IF TrainFails THEN TRAIN_FILE_PATH ELSE None,
                        invalid_test_file_path  |->
                            IF TestFails THEN TEST_FILE_PATH ELSE None,
                        drift_report_file_path  |-> DRIFT_REPORT_FILE_PATH]>>

\* a rejection in which only the train table failed
C2_Witness ==
    /\ pc = "Rejected"
    /\ TrainFails /\ ~TestFails
    /\ artifact[1].invalid_train_file_path = TRAIN_FILE_PATH
    /\ artifact[1].invalid_test_file_path = None

Ended == pc \in {"Done", "Rejected", "Raised"}
Flagged(report) == \E c \in DOMAIN report : report[c].drift_detected

(***************************************************************************)
(* C3: when both tables pass the column check and no I/O step fails, the   *)
(* run ends in Done, with validation_status equal to the status returned   *)
(* by detect_dataset_drift, the valid paths set to the configured ones,    *)
(* the invalid paths unset and the report path set.                        *)
(***************************************************************************)
C3_DoneResult ==
    (Ended /\ ~TrainFails /\ ~TestFails /\ raised # "IOError") =>
        /\ pc = "Done"
        /\ drift_status # <<>>
        /\ artifact =
             <<[validation_status       |-> drift_status[1],
                valid_train_file_path   |-> VALID_TRAIN_FILE_PATH,
                valid_test_file_path    |-> VALID_TEST_FILE_PATH,
                invalid_train_file_path |-> None,
                invalid_test_file_path  |-> None,
                drift_report_file_path  |-> DRIFT_REPORT_FILE_PATH]>>

(***************************************************************************)
(* C4: every returned result has exactly one of the pairs valid_* and      *)
(* invalid_* populated: after a failed column check the valid paths are    *)
(* unset and the invalid paths name the failing tables; after a passed one *)
(* the invalid paths are unset and the valid paths name files holding      *)
(* copies of the input tables.                                             *)
(***************************************************************************)
C4_ExactlyOnePair ==
    artifact # <<>> =>
        LET a == artifact[1]
            validSet == a.valid_train_file_path # None /\ a.valid_test_file_path # None
            validAny == a.valid_train_file_path # None \/ a.valid_test_file_path # None
            invalidAny == a.invalid_train_file_path # None
                            \/ a.invalid_test_file_path # None
        IN /\ validSet <=> validAny
           /\ validAny <=> ~invalidAny
           /\ (TrainFails \/ TestFails) =>
                 /\ ~validAny
                 /\ a.invalid_train_file_path =
                      IF TrainFails THEN TRAIN_FILE_PATH ELSE None
                 /\ a.invalid_test_file_path =
                      IF TestFails THEN TEST_FILE_PATH ELSE None
           /\ ~(TrainFails \/ TestFails) =>
                 /\ ~invalidAny
                 /\ a.valid_train_file_path = VALID_TRAIN_FILE_PATH
                 /\ a.valid_test_file_path = VALID_TEST_FILE_PATH
                 /\ valid_train_file # <<>>
                 /\ valid_test_file # <<>>
                 /\ ReadCsv(valid_train_file[1]) = ReadCsv(train_file)
                 /\ ReadCsv(valid_test_file[1]) = ReadCsv(test_file)

\* a result with the valid pair set, whose persisted test file differs in
\* text from the ingested one (a float column) and holds the same table
C4_Witness ==
    /\ pc = "Done"
    /\ artifact[1].valid_test_file_path = VALID_TEST_FILE_PATH
    /\ artifact[1].invalid_test_file_path = None
    /\ valid_test_file[1] # test_file
    /\ ReadCsv(valid_test_file[1]) = ReadCsv(test_file)

SharedColumns == Range(train_file.header) \cap Range(test_file.header)

(***************************************************************************)
(* C6: rejection short-circuit: in a run where the column check fails for  *)
(* the train table or for the test table, detect_dataset_drift is never    *)
(* invoked, no report is written at the report path and no table is        *)
(* written to the valid paths.                                             *)
(***************************************************************************)
C6_RejectionShortCircuit ==
    (TrainFails \/ TestFails) =>
        /\ ~Performed("detect_dataset_drift")
        /\ ~Performed("write_report")
        /\ ~Performed("write_valid_train")
        /\ ~Performed("write_valid_test")
        /\ drift_status = <<>>
        /\ drift_report_file = <<>>
        /\ valid_train_file = <<>>
        /\ valid_test_file = <<>>

\* a result returned after only the test table failed the check
C6_Witness ==
    /\ pc = "Rejected"
    /\ ~TrainFails /\ TestFails
    /\ artifact # <<>>
    /\ drift_report_file = <<>>

(***************************************************************************)
(* C7: the validation_status of a returned artifact is true exactly when   *)
(* both tables passed the column check and no compared column was flagged  *)
(* as drifted.                                                             *)
(***************************************************************************)
C7_StatusIffAllChecksPass ==
    artifact # <<>> =>
        (artifact[1].validation_status <=>
            /\ ~TrainFails /\ ~TestFails
            /\ drift_report_file # <<>>
            /\ ~Flagged(drift_report_file[1]))

\* a result with status true after a column was compared
C7_Witness ==
    /\ pc = "Done"
    /\ artifact[1].validation_status = TRUE
    /\ DOMAIN drift_report_file[1] # {}

(***************************************************************************)
(* C8: detect_dataset_drift returns false exactly when at least one record *)
(* of the report it wrote has drift_detected true.                         *)
(***************************************************************************)
C8_StatusIffNoFlag ==
    drift_status # <<>> =>
        /\ drift_report_file # <<>>
        /\ drift_status[1] = FALSE <=> Flagged(drift_report_file[1])

\* a report whose first column is flagged and whose second is not
C8_Witness ==
    /\ pc = "DriftChecked"
    /\ drift_status = <<FALSE>>
    /\ Len(train_file.header) = 2
    /\ DOMAIN drift_report_file[1] = Range(train_file.header)
    /\ drift_report_file[1][train_file.header[1]].drift_detected
    /\ ~drift_report_file[1][train_file.header[2]].drift_detected

(***************************************************************************)
(* C9: the report has exactly one record for each column of the train      *)
(* table that is also in the test table and no other key; a train column   *)
(* absent from the test table adds no record, flags no drift and does not  *)
(* fail the call, and a column of the test table alone never appears.      *)
(***************************************************************************)
C9_ReportKeys ==
    /\ drift_report_file # <<>> => DOMAIN drift_report_file[1] = SharedColumns
    /\ (drift_status # <<>> /\ drift_status[1] = FALSE) =>
          \E c \in SharedColumns : drift_report_file[1][c].drift_detected
    /\ (Performed("detect_dataset_drift") /\ raised \notin {None, "IOError"}) =>
          \E c \in SharedColumns :
              CompareColumn(train_dataframe[1], test_dataframe[1], c, threshold,
                            ks_empty_raises).raised = raised

\* a call that returned true with one train column absent from the test table
C9_Witness ==
    /\ pc = "DriftChecked"
    /\ Range(train_file.header) \ Range(test_file.header) # {}
    /\ Range(test_file.header) \ Range(train_file.header) # {}
    /\ DOMAIN drift_report_file[1] = SharedColumns
    /\ SharedColumns # {}
    /\ drift_status = <<TRUE>>

(***************************************************************************)
(* C10: for a numeric train column the record's drift_detected is true     *)
(* exactly when its p_value is strictly below the threshold, and the       *)
(* recorded p_value lies in [0, 1].                                        *)
(***************************************************************************)
C10_NumericRecord ==
    drift_report_file # <<>> =>
        \A c \in DOMAIN drift_report_file[1] :
            is_numeric_dtype(ReadCsv(train_file).dtype[c]) =>
                LET r == drift_report_file[1][c]
                IN /\ r.drift_detected <=> Less(r.p_value, threshold)
                   /\ Leq([num |-> 0, den |-> 1], r.p_value)
                   /\ Leq(r.p_value, [num |-> 1, den |-> 1])

(***************************************************************************)
(* C13: a column that cannot be compared, in particular one that is empty  *)
(* on either side once the nulls are dropped, is skipped: the run is not   *)
(* aborted by the comparison and the report has no record for it.          *)
(***************************************************************************)
C13_AbstainsOnEmptyColumn ==
    /\ raised \notin {"ValueError", "TypeError"}
    /\ drift_report_file # <<>> =>
          \A c \in DOMAIN drift_report_file[1] :
              /\ Kind(ReadCsv(train_file), c) # "empty"
              /\ Kind(ReadCsv(test_file), c) # "empty"

C15_IOFailureAborts ==
    raised = "IOError" =>
        /\ pc = "Raised"
        /\ artifact = <<>>
        /\ ~Performed("return")
        /\ ~ENABLED Next

\* the write of the valid test table failed after the report and the valid
\* train table were written
C15_Witness ==
    /\ raised = "IOError"
    /\ pc = "Raised"
    /\ Performed("write_report")
    /\ Performed("write_valid_train")
    /\ valid_train_file # <<>>
    /\ valid_test_file = <<>>
    /\ artifact = <<>>

(***************************************************************************)
(* C18: no step of a run alters its inputs: the two ingested files and the *)
(* schema never change, and each table in memory, once read, keeps the     *)
(* columns, order, values, nulls and rows it was read with.                *)
(***************************************************************************)
C18_StepKeepsInputs ==
    /\ train_file' = train_file
    /\ test_file' = test_file
    /\ schema_config' = schema_config
    /\ train_dataframe # <<>> => train_dataframe' = train_dataframe
    /\ test_dataframe # <<>> => test_dataframe' = test_dataframe
    /\ train_dataframe' # <<>> => train_dataframe' = <<ReadCsv(train_file)>>
    /\ test_dataframe' # <<>> => test_dataframe' = <<ReadCsv(test_file)>>

C18_InputsUnaltered == [][C18_StepKeepsInputs]_vars

\* a finished run on tables that hold null values: the tables in memory are
\* still what the files hold, nulls included
C18_Witness ==
    /\ pc = "Done"
    /\ \E c \in Range(train_file.header) :
          LET col == ReadCsv(train_file).data[c]
          IN Len(dropna(col)) \notin {0, Len(col)}
    /\ train_dataframe = <<ReadCsv(train_file)>>
    /\ test_dataframe = <<ReadCsv(test_file)>>
    /\ valid_train_file # <<>>
    /\ valid_test_file # <<>>

(***************************************************************************)
(* C11: for a non-numeric train column the distance is the sum, over the   *)
(* categories seen on either side, of the absolute difference of the two   *)
(* normalized frequencies, a category missing on a side counting 0; the    *)
(* record's drift_detected is true exactly when the distance is strictly   *)
(* greater than the threshold, and its p_value is 1 minus the distance.    *)
(***************************************************************************)
Frequency(d, cat) ==
    IF Len(d) = 0 THEN [num |-> 0, den |-> 1]
    ELSE [num |-> Count(d, cat), den |-> Len(d)]

AbsDifference(p, q) ==
    [num |-> Abs(p.num * q.den - q.num * p.den), den |-> p.den * q.den]

RECURSIVE L1Distance(_, _, _)
L1Distance(cats, d1, d2) ==
    IF cats = {} THEN [num |-> 0, den |-> 1]
    ELSE LET cat == CHOOSE x \in cats : TRUE
             rest == L1Distance(cats \ {cat}, d1, d2)
             term == AbsDifference(Frequency(d1, cat), Frequency(d2, cat))
         IN [num |-> term.num * rest.den + rest.num * term.den,
             den |-> term.den * rest.den]

Same(p, q) == ~IsNaN(p) /\ ~IsNaN(q) /\ p.num * q.den = q.num * p.den

TextColumns ==
    {c \in SharedColumns : ~is_numeric_dtype(ReadCsv(train_file).dtype[c])}

Sample(file, c) == dropna(ReadCsv(file).data[c])

C11_CategoricalRecord ==
    drift_report_file # <<>> =>
        \A c \in TextColumns :
            LET d1 == Sample(train_file, c)
                d2 == Sample(test_file, c)
                distance == L1Distance(Range(d1) \cup Range(d2), d1, d2)
                r == drift_report_file[1][c]
            IN /\ r.drift_detected <=>
                     distance.num * threshold.den > threshold.num * distance.den
               /\ Same(r.p_value, [num |-> distance.den - distance.num,
                                   den |-> distance.den])

(***************************************************************************)
(* C12: for two non-empty categorical samples the distance lies in [0, 2]  *)
(* and is 0 exactly when every category has the same normalized frequency  *)
(* on both sides; the recorded p_value, 1 minus the distance, lies in      *)
(* [-1, 1].                                                                *)
(***************************************************************************)
SameDistribution(d1, d2) ==
    \A cat \in Range(d1) \cup Range(d2) :
        Count(d1, cat) * Len(d2) = Count(d2, cat) * Len(d1)

C12_DistanceBounds ==
    drift_report_file # <<>> =>
        \A c \in TextColumns :
            LET d1 == Sample(train_file, c)
                d2 == Sample(test_file, c)
                p_value == drift_report_file[1][c].p_value
                distance == OneMinus(p_value)
            IN (d1 # <<>> /\ d2 # <<>>) =>
                  /\ Leq([num |-> 0, den |-> 1], distance)
                  /\ Leq(distance, [num |-> 2, den |-> 1])
                  /\ Leq([num |-> -1, den |-> 1], p_value)
                  /\ Leq(p_value, [num |-> 1, den |-> 1])
                  /\ Same(distance, [num |-> 0, den |-> 1]) <=>
                        SameDistribution(d1, d2)

\* one column with different samples of one distribution (distance 0), one
\* with no category in common (distance 2, p_value -1)
C12_Witness ==
    /\ pc = "DetectReturned"
    /\ TextColumns = {"A", "B"}
    /\ Sample(train_file, "A") # <<>>
    /\ Sample(train_file, "A") # Sample(test_file, "A")
    /\ SameDistribution(Sample(train_file, "A"), Sample(test_file, "A"))
    /\ Same(drift_report_file[1]["A"].p_value, [num |-> 1, den |-> 1])
    /\ Sample(train_file, "B") # <<>>
    /\ Sample(test_file, "B") # <<>>
    /\ Same(drift_report_file[1]["B"].p_value, [num |-> -1, den |-> 1])

(***************************************************************************)
(* C16: when the schema file is absent, cannot be parsed, or has no        *)
(* "columns" entry, the run is aborted before any table is read: neither   *)
(* the train nor the test file is ever read.                               *)
(***************************************************************************)
C16_NoReadWithoutSchema ==
    ~HasColumns(schema_yaml) =>
        /\ ~Performed("read_train")
        /\ ~Performed("read_test")
        /\ train_dataframe = <<>>
        /\ test_dataframe = <<>>

(***************************************************************************)
(* C17: idempotence: when the stage is run twice on the same files, schema *)
(* and config and both runs return a result, the two results have the      *)
(* same validation_status and the same path fields, and the report at the  *)
(* report path after the second run is the one the first run left.         *)
(***************************************************************************)
C17_Idempotent ==
    (previous # <<>> /\ previous[1].artifact # <<>> /\ artifact # <<>>) =>
        /\ artifact[1].validation_status = previous[1].artifact[1].validation_status
        /\ artifact = previous[1].artifact
        /\ drift_report_file = previous[1].report
        /\ drift_status = previous[1].drift_status

\* both runs went through the drift check, found drift and returned false
C17_Witness ==
    /\ previous # <<>>
    /\ previous[1].artifact # <<>>
    /\ previous[1].drift_status = <<FALSE>>
    /\ pc = "Done"
    /\ artifact # <<>>
    /\ artifact[1].validation_status = FALSE
    /\ drift_report_file # <<>>
    /\ Flagged(drift_report_file[1])

(***************************************************************************)
(* C19: once a run has passed the drift check without error, the file at   *)
(* the report path holds exactly this run's per-column report: a report    *)
(* that was there before is overwritten and none of its entries survive.   *)
(***************************************************************************)
C19_ReportOverwritten ==
    drift_status # <<>> =>
        /\ drift_report_file # <<>>
        /\ DOMAIN drift_report_file[1] = SharedColumns
        /\ drift_report_file[1] =
              detect_dataset_drift(ReadCsv(train_file), ReadCsv(test_file),
                                   threshold, ks_empty_raises).report

\* the first run failed before the drift check and left the stale report of
\* an earlier dataset in place; the second run replaced it: the entry of B is
\* gone and the entry of A is this run's
C19_Witness ==
    /\ previous # <<>>
    /\ previous[1].report = <<StaleReport>>
    /\ drift_status = <<TRUE>>
    /\ drift_report_file # <<>>
    /\ DOMAIN drift_report_file[1] = {"A"}
    /\ ~drift_report_file[1]["A"].drift_detected

(***************************************************************************)
(* C20: handed a rejection artifact, whose valid train or valid test path  *)
(* is unset, initiate_data_transformation raises and writes none of its    *)
(* outputs: no transformed train array, no transformed test array, no      *)
(* preprocessing object, and no transformation artifact.                   *)
(***************************************************************************)
C20_RejectionStopsTransformation ==
    (/\ artifact # <<>>
     /\ \/ artifact[1].valid_train_file_path = None
        \/ artifact[1].valid_test_file_path = None) =>
        /\ pc \in {"Rejected", "TransformRaised"}
        /\ pc = "Rejected" =>
              /\ ENABLED TransformReadTrainFails
              /\ ~ENABLED TransformReadTrain
        /\ pc = "TransformRaised" => raised = "ValueError"
        /\ transform_outputs = {}
        /\ transform_artifact = <<>>

\* the validation stage rejected both tables and the transformation stage,
\* run on its artifact, raised at its first read
C20_Witness ==
    /\ pc = "TransformRaised"
    /\ raised = "ValueError"
    /\ artifact # <<>>
    /\ artifact[1].validation_status = FALSE
    /\ artifact[1].valid_train_file_path = None
    /\ artifact[1].valid_test_file_path = None
    /\ ~Performed("read_valid_train")
    /\ transform_outputs = {}
    /\ transform_artifact = <<>>

(***************************************************************************)
(* C27: a run that reaches Done has executed, in this order: read train,   *)
(* read test, check train, check test, the drift step with its one report  *)
(* write, write valid train, write valid test, return. No valid table is   *)
(* written before the report, and no result naming the valid paths is      *)
(* returned before both valid tables are written.                          *)
(***************************************************************************)
DoneTrace ==
    <<"read_train", "read_test", "validate_train", "validate_test",
      "detect_dataset_drift", "write_report", "write_valid_train",
      "write_valid_test", "return">>

C27_StepOrder ==
    /\ pc = "Done" => trace = DoneTrace
    /\ valid_train_file # <<>> =>
          /\ Performed("write_report")
          /\ drift_report_file # <<>>
    /\ valid_test_file # <<>> => valid_train_file # <<>>
    /\ (artifact # <<>> /\ artifact[1].valid_train_file_path # None) =>
          /\ valid_train_file # <<>>
          /\ valid_test_file # <<>>

\* a finished run: the report and both valid tables are on disk and the
\* result names the valid paths
C27_Witness ==
    /\ pc = "Done"
    /\ trace = DoneTrace
    /\ drift_report_file # <<>>
    /\ valid_train_file # <<>>
    /\ valid_test_file # <<>>
    /\ artifact # <<>>
    /\ artifact[1].valid_train_file_path = VALID_TRAIN_FILE_PATH
    /\ artifact[1].valid_test_file_path = VALID_TEST_FILE_PATH

(***************************************************************************)
(* C25: the missing/extra diagnostic does not enter the result of the      *)
(* column check, which depends on the two column counts alone: a table     *)
(* with as many columns as the schema but other column names is accepted,  *)
(* and a run whose two tables are accepted goes on to the drift check.     *)
(***************************************************************************)
NamesDiffer(dataframe) ==
    \/ missing_cols(dataframe, schema_config) # {}
    \/ extra_cols(dataframe, schema_config) # {}

C25_DiagnosticDoesNotDecide ==
    /\ valid_train # <<>> =>
          (valid_train[1] <=> Len(train_dataframe[1].columns) = Len(schema_config))
    /\ valid_test # <<>> =>
          (valid_test[1] <=> Len(test_dataframe[1].columns) = Len(schema_config))
    /\ (/\ BothChecked
        /\ Len(train_dataframe[1].columns) = Len(schema_config)
        /\ Len(test_dataframe[1].columns) = Len(schema_config)
        /\ NamesDiffer(train_dataframe[1]) \/ NamesDiffer(test_dataframe[1])) =>
          /\ pc # "Rejected"
          /\ pc = "Checked" => ~ENABLED Reject
          /\ pc # "Checked" => Performed("detect_dataset_drift")

\* the test table has the column C where the schema has B: it is accepted
\* and the drift check ran
C25_Witness ==
    /\ pc = "DriftChecked"
    /\ schema_config = <<"A", "B">>
    /\ test_file.header = <<"A", "C">>
    /\ missing_cols(test_dataframe[1], schema_config) = {"B"}
    /\ extra_cols(test_dataframe[1], schema_config) = {"C"}
    /\ valid_test = <<TRUE>>
    /\ Performed("write_report")

(***************************************************************************)
(* C28: vacuous pass: when no column name of the train table is in the     *)
(* test table, detect_dataset_drift compares nothing, writes an empty      *)
(* report to the report path and returns true, and a run without I/O       *)
(* failure ends in Done with validation_status true.                       *)
(***************************************************************************)
C28_VacuousPass ==
    (SharedColumns = {} /\ BothChecked /\ ~TrainFails /\ ~TestFails) =>
        /\ raised \in {None, "IOError"}
        /\ pc = "Checked" => ENABLED DetectDrift /\ ~ENABLED DetectDriftCompareRaises
        /\ pc \in {"DriftChecked", "TrainPersisted", "TestPersisted", "Done"} =>
              /\ drift_status = <<TRUE>>
              /\ drift_report_file = <<EmptyReport>>
        /\ pc \in {"TrainPersisted", "TestPersisted"} => ENABLED Next
        /\ pc = "Done" =>
              /\ artifact # <<>>
              /\ artifact[1].validation_status = TRUE

\* train holds the column A, test the column C, the schema asks for one column
C28_Witness ==
    /\ pc = "Done"
    /\ train_file.header = <<"A">>
    /\ test_file.header = <<"C">>
    /\ NRows(train_dataframe[1]) > 0
    /\ drift_report_file = <<EmptyReport>>
    /\ artifact # <<>>
    /\ artifact[1].validation_status = TRUE

(***************************************************************************)
(* C23: for a numeric train column whose test values are the same as the   *)
(* train values, the p-value computed is the maximum, 1, and the column is *)
(* not flagged; the comparison of such a column does not fail.             *)
(***************************************************************************)
IdenticalNumericColumns ==
    {c \in SharedColumns :
        /\ is_numeric_dtype(ReadCsv(train_file).dtype[c])
        /\ ReadCsv(train_file).data[c] = ReadCsv(test_file).data[c]}

C23_IdenticalNumericAtMaximum ==
    \A c \in IdenticalNumericColumns :
        /\ raised = "ValueError" => Kind(ReadCsv(train_file), c) # "empty"
        /\ drift_report_file # <<>> =>
              /\ Same(drift_report_file[1][c].p_value, [num |-> 1, den |-> 1])
              /\ ~drift_report_file[1][c].drift_detected

(***************************************************************************)
(* C24: the method is chosen by the type of the null-dropped train column  *)
(* alone. A numeric train column is put to the two-sample test whatever    *)
(* the test column holds: the record is the test's, and text on the other  *)
(* side makes the test fail. Any other train column is put to the          *)
(* frequency distance whatever the test column holds: the comparison never *)
(* fails and the record is a distance's (p_value = 1 - distance, flagged   *)
(* when the distance exceeds the threshold).                               *)
(***************************************************************************)
C24_DispatchOnReference ==
    LET base == ReadCsv(train_file)
        current == ReadCsv(test_file)
        d1 == Sample(train_file, "A")
        d2 == Sample(test_file, "A")
    IN IF is_numeric_dtype(base.dtype["A"])
       THEN /\ (d1 # <<>> /\ d2 # <<>> /\ ~is_numeric_dtype(current.dtype["A"])) =>
                  pc \in {"DetectCalled", "Raised"}
            /\ (d1 # <<>> /\ d2 # <<>> /\ drift_report_file # <<>>) =>
                  drift_report_file[1]["A"] = NumericRecord(d1, d2, threshold)
       ELSE /\ raised \in {None, "IOError"}
            /\ drift_report_file # <<>> =>
                  LET r == drift_report_file[1]["A"]
                  IN /\ ~IsNaN(r.p_value)
                     /\ r.drift_detected <=> Greater(OneMinus(r.p_value), threshold)
                     /\ Leq(r.p_value, [num |-> 1, den |-> 1])

\* a text train column against a numeric test column: the frequency
\* distance was used and recorded
C24_Witness ==
    /\ pc = "DetectReturned"
    /\ Kind(ReadCsv(train_file), "A") = "text"
    /\ Kind(ReadCsv(test_file), "A") = "numeric"
    /\ drift_report_file # <<>>
    /\ drift_report_file[1]["A"].drift_detected
    /\ Less(drift_report_file[1]["A"].p_value, [num |-> 1, den |-> 1])

(***************************************************************************)
(* C26: after a run aborted by an I/O failure at any step, a second run on *)
(* the same files, schema and config that meets no failure ends as a       *)
(* single clean run does: same result, and the report path and the two     *)
(* valid paths hold what a clean run writes, whatever the aborted run left *)
(* behind.                                                                 *)
(***************************************************************************)
CleanDrift ==
    detect_dataset_drift(ReadCsv(train_file), ReadCsv(test_file), threshold,
                         ks_empty_raises)

C26_RerunAfterAbort ==
    (previous # <<>> /\ previous[1].raised = "IOError") =>
        /\ pc = "Done" =>
              /\ artifact = <<DoneArtifact(CleanDrift.status)>>
              /\ drift_report_file = <<CleanDrift.report>>
              /\ valid_train_file = <<ToCsv(ReadCsv(train_file))>>
              /\ valid_test_file = <<ToCsv(ReadCsv(test_file))>>
        /\ pc = "Rejected" =>
              /\ artifact = <<RejectedArtifact(~TrainFails, ~TestFails)>>
              /\ drift_report_file = previous[1].report
              /\ valid_train_file = <<>>
              /\ valid_test_file = <<>>

\* the first run wrote the report and the valid train table and failed while
\* writing the valid test table, leaving it truncated; the second run is done
C26_Witness ==
    /\ previous # <<>>
    /\ previous[1].raised = "IOError"
    /\ previous[1].report # <<>>
    /\ previous[1].valid_train_file = <<ToCsv(ReadCsv(train_file))>>
    /\ previous[1].valid_test_file = <<TruncatedCsv>>
    /\ NRows(ReadCsv(test_file)) > 0
    /\ pc = "Done"
    /\ valid_test_file = <<ToCsv(ReadCsv(test_file))>>

(***************************************************************************)
(* C22: any two TrainingPipelineConfig objects created for two runs, in    *)
(* one process or in two, have different artifact_dir values, and so no    *)
(* two runs share a valid-table path or a drift-report path.               *)
(***************************************************************************)
C22_FreshArtifactDir ==
    \A i, j \in DOMAIN configs :
        i # j =>
            /\ configs[i].artifact_dir # configs[j].artifact_dir
            /\ DataValidationConfig(configs[i]).valid_train_file_path
                  # DataValidationConfig(configs[j]).valid_train_file_path
            /\ DataValidationConfig(configs[i]).valid_test_file_path
                  # DataValidationConfig(configs[j]).valid_test_file_path
            /\ DataValidationConfig(configs[i]).drift_report_file_path
                  # DataValidationConfig(configs[j]).drift_report_file_path

(***************************************************************************)
(* C21: the driver runs ingestion, validation, transformation and training *)
(* in this order, each at most once; a stage starts only after the stage   *)
(* before it has returned its artifact; once a stage has raised, no stage  *)
(* is started or retried.                                                  *)
(***************************************************************************)
IngestionStage == {"New", "IngestionRaised"}
TransformationStage ==
    {"ValidTrainRead", "ValidTestRead", "Transformed", "TrainArraySaved",
     "TestArraySaved", "ObjectSaved", "TransformDone", "TransformRaised"}
TrainingStage == {"Trained", "TrainingRaised"}
HasRaised ==
    {"ImportRaised", "IngestionRaised", "Raised", "TransformRaised", "TrainingRaised"}

\* the stage the control point lies in: 0 before ingestion, 1 once ingestion
\* has run, 2 inside validation, 3 inside transformation, 4 once training has run
StageOf(at) ==
    IF at \in {"Main", "ImportRaised"} THEN 0
    ELSE IF at \in IngestionStage THEN 1
    ELSE IF at \in TransformationStage THEN 3
    ELSE IF at \in TrainingStage THEN 4
    ELSE 2

\* the artifact the stage before stage n has returned
ReturnedBefore(n) ==
    IF n = 1 THEN pc = "Main"
    ELSE IF n = 2 THEN pc = "New" /\ data_ingestion_artifact # <<>>
    ELSE IF n = 3 THEN pc \in {"Done", "Rejected"} /\ artifact # <<>>
    ELSE pc = "TransformDone" /\ transform_artifact # <<>>

C21_StagesInOrder ==
    [][ /\ pc \notin HasRaised
        /\ StageOf(pc') \in {StageOf(pc), StageOf(pc) + 1}
        /\ StageOf(pc') = StageOf(pc) + 1 => ReturnedBefore(StageOf(pc'))
        /\ raised' # None => pc' \in HasRaised ]_vars

C21_Witness ==
    /\ pc = "Trained"
    /\ raised = None
    /\ data_ingestion_artifact # <<>>
    /\ artifact # <<>>
    /\ transform_artifact # <<>>
    /\ model_trainer_artifact # <<>>
    /\ trace[1] = "initiate_data_ingestion"
    /\ trace[Len(trace)] = "initiate_model_trainer"

====
